---- MODULE Spec2Model ----
(***************************************************************************)
(* Slide quiz backend: the CSV loader (backend/app/data_loader.py) and the *)
(* request handlers (backend/app/main.py).                                 *)
(*                                                                         *)
(* A Python str is a sequence of one-character strings, so strip, lower,   *)
(* replace, startswith and endswith are computed character by character.   *)
(* A path is the sequence of its segments from the root; os.path is        *)
(* posixpath.  Improvement labels are only ever compared for equality, so  *)
(* each is one atomic string.                                              *)
(***************************************************************************)
EXTENDS Naturals, Integers, Sequences, FiniteSets, TLC

VARIABLES
    csv_is_file,      \* os.path.isfile(csv_path)
    csv_lines,        \* what csv.reader yields: the header row, then the data rows
    fs,               \* the file system: directories, regular files, unlistable directories
    images_dir_env,   \* IMAGES_DIR: a path, or None
    pc,               \* "import" | "rows" | "serving" | "raised"
    headers,          \* load_quizzes: normalized header names
    idx,              \* load_quizzes: dict header -> column index
    id_key,           \* load_quizzes: the identifier header, or None
    rdr,              \* load_quizzes: position of the reader in csv_lines
    quizzes,          \* load_quizzes: the dict under construction
    find_call,        \* the last call of _find_image_relpath and its outcome
    exc,              \* the exception that ended the import, or None
    _QUIZZES,         \* main.py module global
    DEFAULT_QUIZ_ID,  \* main.py module global
    resp              \* the last response sent

vars == <<csv_is_file, csv_lines, fs, images_dir_env, pc, headers, idx, id_key,
          rdr, quizzes, find_call, exc, _QUIZZES, DEFAULT_QUIZ_ID, resp>>

\* Optional[T]: None, or Some(v)
None == <<>>
Some(v) == <<v>>
Val(o) == o[1]

\* no exception
NoExc == "None"

-----------------------------------------------------------------------------
(* Python str operations *)

BOM == "U+FEFF"
Whitespace == {" ", "\t"}
Slash == "/"
Backslash == "\\"

LowerChar(c) ==
    CASE c = "I" -> "i" [] c = "D" -> "d" [] c = "Y" -> "y" [] c = "E" -> "e"
      [] c = "S" -> "s" [] c = "T" -> "t" [] c = "R" -> "r" [] c = "U" -> "u"
      [] c = "C" -> "c" [] c = "H" -> "h" [] c = "Q" -> "q"
      [] OTHER -> c

lower(s) == [i \in 1..Len(s) |-> LowerChar(s[i])]

RECURSIVE lstrip(_)
lstrip(s) == IF s # <<>> /\ Head(s) \in Whitespace THEN lstrip(Tail(s)) ELSE s

RECURSIVE rstrip(_)
rstrip(s) ==
    IF s # <<>> /\ s[Len(s)] \in Whitespace THEN rstrip(SubSeq(s, 1, Len(s) - 1)) ELSE s

strip(s) == rstrip(lstrip(s))

startswith(s, p) == Len(s) >= Len(p) /\ SubSeq(s, 1, Len(p)) = p

endswith(s, p) == Len(s) >= Len(p) /\ SubSeq(s, Len(s) - Len(p) + 1, Len(s)) = p

\* s.replace(old, new) for single characters
replace(s, old, new) == [i \in 1..Len(s) |-> IF s[i] = old THEN new ELSE s[i]]

\* s.replace(old, "") for a single character
remove(s, old) == SelectSeq(s, LAMBDA c : c # old)

\* s.split("/")
RECURSIVE split(_, _)
split(s, acc) ==
    IF s = <<>> THEN <<acc>>
    ELSE IF Head(s) = Slash THEN <<acc>> \o split(Tail(s), <<>>)
    ELSE split(Tail(s), Append(acc, Head(s)))

\* "/".join(segs)
RECURSIVE joinsep(_)
joinsep(segs) ==
    IF segs = <<>> THEN <<>>
    ELSE IF Len(segs) = 1 THEN segs[1]
    ELSE segs[1] \o <<Slash>> \o joinsep(Tail(segs))

-----------------------------------------------------------------------------
(* posixpath and the file system *)

Dot == <<".">>
DotDot == <<".", ".">>
Png == <<".", "p", "n", "g">>

\* posixpath.join(directory, name): an absolute name discards the directory
path_join(dir, name) ==
    IF startswith(name, <<Slash>>) THEN split(name, <<>>) ELSE dir \o split(name, <<>>)

\* posixpath.normpath of an absolute path, segment by segment
RECURSIVE normpath(_, _)
normpath(acc, segs) ==
    IF segs = <<>> THEN acc
    ELSE LET s == Head(segs) IN
         IF s = <<>> \/ s = Dot THEN normpath(acc, Tail(segs))
         ELSE IF s = DotDot
              THEN normpath(IF acc = <<>> THEN acc ELSE SubSeq(acc, 1, Len(acc) - 1),
                            Tail(segs))
         ELSE normpath(Append(acc, s), Tail(segs))

\* the kernel's path walk: every segment is looked up in a directory that exists
RECURSIVE walk(_, _, _)
walk(f, cur, segs) ==
    IF segs = <<>> THEN Some(cur)
    ELSE IF cur \notin f.dirs THEN None
    ELSE LET s == Head(segs) IN
         walk(f,
              IF s = <<>> \/ s = Dot THEN cur
              ELSE IF s = DotDot
                   THEN (IF cur = <<>> THEN cur ELSE SubSeq(cur, 1, Len(cur) - 1))
              ELSE Append(cur, s),
              Tail(segs))

isfile(f, p) == LET t == walk(f, <<>>, p) IN t # None /\ Val(t) \in f.files

isdir(f, p) == LET t == walk(f, <<>>, p) IN t # None /\ Val(t) \in f.dirs

\* os.listdir(d): the entry names, or the OSError subclass it raises
listdir(f, d) ==
    IF isfile(f, d) THEN [raises |-> "NotADirectoryError", names |-> {}]
    ELSE IF ~isdir(f, d) THEN [raises |-> "FileNotFoundError", names |-> {}]
    ELSE LET t == Val(walk(f, <<>>, d)) IN
         IF t \in f.nolist THEN [raises |-> "PermissionError", names |-> {}]
         ELSE [raises |-> NoExc,
               names |-> {p[Len(p)] : p \in {q \in f.dirs \cup f.files :
                                          Len(q) = Len(t) + 1 /\ SubSeq(q, 1, Len(t)) = t}}]

\* len(os.path.commonprefix([start_list, path_list]))
RECURSIVE commonlen(_, _)
commonlen(a, b) ==
    IF a = <<>> \/ b = <<>> \/ Head(a) # Head(b) THEN 0
    ELSE 1 + commonlen(Tail(a), Tail(b))

\* posixpath.relpath(p, start), as a str
relpath(p, start) ==
    LET path_list == normpath(<<>>, p)
        start_list == normpath(<<>>, start)
        i == commonlen(start_list, path_list)
        rel_list == [k \in 1..(Len(start_list) - i) |-> DotDot]
                      \o SubSeq(path_list, i + 1, Len(path_list))
    IN IF rel_list = <<>> THEN Dot ELSE joinsep(rel_list)

-----------------------------------------------------------------------------
(* data_loader.py *)

UI_IMPROVEMENTS ==
    <<"pictogram", "subheading", "text_emphasis", "area_emphasis", "title_message",
      "applied_diagram", "bullets", "evaluation", "flow", "MECE">>

LABEL_TO_COL ==
    [label \in {UI_IMPROVEMENTS[n] : n \in 1..Len(UI_IMPROVEMENTS)} |->
        LET n == CHOOSE m \in 1..Len(UI_IMPROVEMENTS) : UI_IMPROVEMENTS[m] = label
        IN IF n = 10 THEN <<"c", "h", "1", "0">>
           ELSE <<"c", "h", <<"1", "2", "3", "4", "5", "6", "7", "8", "9">>[n]>>]

QuizDef(id, improvements, correct, image_relpath) ==
    [id |-> id, improvements |-> improvements, correct |-> correct,
     image_relpath |-> image_relpath]

\* _truthy without the strip
_truthy_unstripped(value) ==
    lower(value) \in {<<"1">>, <<"t", "r", "u", "e">>, <<"y", "e", "s">>, <<"y">>}

_truthy(value) ==
    lower(strip(value)) \in {<<"1">>, <<"t", "r", "u", "e">>, <<"y", "e", "s">>, <<"y">>}

_normalize_headers(hs) == [i \in 1..Len(hs) |-> strip(remove(hs[i], BOM))]

\* a Python dict: the keys in insertion order, and the value of each key
EmptyDict == [keys |-> <<>>, at |-> <<>>]

Keys(d) == {d.keys[i] : i \in 1..Len(d.keys)}

\* a dict assignment that keeps the value of a key already present
DictSet_first_wins(d, k, v) ==
    IF k \in Keys(d) THEN d
    ELSE [keys |-> Append(d.keys, k), at |-> (k :> v) @@ d.at]

DictSet(d, k, v) ==
    [keys |-> IF k \in Keys(d) THEN d.keys ELSE Append(d.keys, k),
     at |-> (k :> v) @@ d.at]

\* d.get(k)
DictGet(d, k) == IF k \in Keys(d) THEN Some(d.at[k]) ELSE None

\* {h: i for i, h in enumerate(headers)}
RECURSIVE enumerate_dict(_, _, _)
enumerate_dict(hs, i, d) ==
    IF i >= Len(hs) THEN d ELSE enumerate_dict(hs, i + 1, DictSet(d, hs[i + 1], i))

\* the identifier header with "id" tried before "ID"
resolve_id_key_lowercase_first(d) ==
    IF <<"i", "d">> \in Keys(d) THEN Some(<<"i", "d">>)
    ELSE IF <<"I", "D">> \in Keys(d) THEN Some(<<"I", "D">>)
    ELSE LET hits == {n \in 1..Len(d.keys) : endswith(lower(d.keys[n]), <<"i", "d">>)}
         IN IF hits = {} THEN None
            ELSE Some(d.keys[CHOOSE n \in hits : \A m \in hits : n <= m])

\* the identifier header: "ID", else "id", else the first key ending in "id"
resolve_id_key(d) ==
    IF <<"I", "D">> \in Keys(d) THEN Some(<<"I", "D">>)
    ELSE IF <<"i", "d">> \in Keys(d) THEN Some(<<"i", "d">>)
    ELSE LET hits == {n \in 1..Len(d.keys) : endswith(lower(d.keys[n]), <<"i", "d">>)}
         IN IF hits = {} THEN None
            ELSE Some(d.keys[CHOOSE n \in hits : \A m \in hits : n <= m])

\* the orders in which os.listdir may yield a set of names
Orders(S) ==
    {o \in [1..Cardinality(S) -> S] : \A x \in S : \E i \in 1..Cardinality(S) : o[i] = x}

\* the candidates with STATIC_DIR/<id>.png ahead of the override
find_candidates_root_first(static_dir, quiz_id, images_dir, f, order) ==
    LET name == quiz_id \o Png
        subs == SelectSeq(order, LAMBDA n : isdir(f, Append(static_dir, n)))
    IN <<path_join(static_dir, name)>>
         \o (IF images_dir # None THEN <<path_join(Val(images_dir), name)>> ELSE <<>>)
         \o [k \in 1..Len(subs) |-> path_join(Append(static_dir, subs[k]), name)]

\* the candidates of _find_image_relpath, given the order os.listdir yields
find_candidates(static_dir, quiz_id, images_dir, f, order) ==
    LET name == quiz_id \o Png
        subs == SelectSeq(order, LAMBDA n : isdir(f, Append(static_dir, n)))
    IN (IF images_dir # None THEN <<path_join(Val(images_dir), name)>> ELSE <<>>)
         \o <<path_join(static_dir, name)>>
         \o [k \in 1..Len(subs) |-> path_join(Append(static_dir, subs[k]), name)]

\* the candidates that are a regular file whose relpath does not start with ".."
accepted(static_dir, f, candidates) ==
    {k \in 1..Len(candidates) :
        /\ isfile(f, candidates[k])
        /\ ~startswith(relpath(candidates[k], static_dir), DotDot)}

\* _find_image_relpath: the exception it raises (or None) and the value it returns
_find_image_relpath(static_dir, quiz_id, images_dir, f, order) ==
    LET ls == listdir(f, static_dir) IN
    IF ls.raises \notin {NoExc, "FileNotFoundError"}
    THEN [raises |-> ls.raises, value |-> None]
    ELSE LET candidates == find_candidates(static_dir, quiz_id, images_dir, f, order)
             ok == accepted(static_dir, f, candidates)
         IN IF ok = {} THEN [raises |-> NoExc, value |-> None]
            ELSE LET k == CHOOSE n \in ok : \A m \in ok : n <= m
                 IN [raises |-> NoExc,
                     value |-> Some(replace(relpath(candidates[k], static_dir),
                                            Backslash, Slash))]

\* the correct set of a data row
row_correct(d, row) ==
    {label \in DOMAIN LABEL_TO_COL :
        LET col == LABEL_TO_COL[label]
            j == DictGet(d, col)
            val == IF j # None /\ Val(j) < Len(row) THEN row[Val(j) + 1] ELSE <<"0">>
        IN _truthy(val)}

\* one iteration of the loop over the data rows: the exception it raises, the
\* dict after it, and the call of _find_image_relpath it made
process_row(d, key, qz, row, static_dir, images_dir, f, order) ==
    IF row = <<>> THEN [raises |-> NoExc, quizzes |-> qz, called |-> None]
    ELSE IF d.at[key] >= Len(row)
    THEN [raises |-> "IndexError", quizzes |-> qz, called |-> None]
    ELSE LET quiz_id == strip(row[d.at[key] + 1]) IN
         IF quiz_id = <<>> THEN [raises |-> NoExc, quizzes |-> qz, called |-> None]
         ELSE LET correct == row_correct(d, row)
                  r == _find_image_relpath(static_dir, quiz_id, images_dir, f, order)
                  call == Some([quiz_id |-> quiz_id, raises |-> r.raises,
                                value |-> r.value])
              IN IF r.raises # NoExc
                 THEN [raises |-> r.raises, quizzes |-> qz, called |-> call]
                 ELSE [raises |-> NoExc,
                       quizzes |-> DictSet(qz, quiz_id,
                                           QuizDef(quiz_id, UI_IMPROVEMENTS, correct,
                                                   r.value)),
                       called |-> call]

-----------------------------------------------------------------------------
(* main.py *)

STATIC_DIR == <<<<"s">>>>

QuizItem(id, image_url, improvements) ==
    [id |-> id, image_url |-> image_url, improvements |-> improvements]

RowResult(item, answered, correct, is_wrong) ==
    [item |-> item, answered |-> answered, correct |-> correct, is_wrong |-> is_wrong]

GradeResult(score, total, rows) == [score |-> score, total |-> total, rows |-> rows]

StaticUrl == <<"/", "s", "t", "a", "t", "i", "c", "/">>

\* f"/static/{q.image_relpath}" if q.image_relpath else None
image_url_of(q) ==
    IF q.image_relpath # None /\ Val(q.image_relpath) # <<>>
    THEN Some(StaticUrl \o Val(q.image_relpath))
    ELSE None

health == [status |-> "ok"]

get_quiz(Q, default_id) ==
    LET quiz_id == IF default_id # None /\ Val(default_id) # <<>> THEN Val(default_id)
                   ELSE <<>>
        q == DictGet(Q, quiz_id)
    IN IF q = None THEN QuizItem(<<>>, None, UI_IMPROVEMENTS)
       ELSE QuizItem(Val(q).id, image_url_of(Val(q)), Val(q).improvements)

get_quiz_by_id(Q, quiz_id) ==
    LET q == DictGet(Q, quiz_id)
    IN IF q = None THEN QuizItem(quiz_id, None, UI_IMPROVEMENTS)
       ELSE QuizItem(Val(q).id, image_url_of(Val(q)), Val(q).improvements)

list_quiz_ids(Q) == Q.keys

\* rows that count only a false selection as wrong
grade_rows_false_selection_only(q, selected) ==
    [n \in 1..Len(q.improvements) |->
        LET item == q.improvements[n]
            answered == item \in selected
            correct == item \in q.correct
            is_wrong == answered /\ ~correct
        IN RowResult(item, answered, correct, is_wrong)]

grade_rows(q, selected) ==
    [n \in 1..Len(q.improvements) |->
        LET item == q.improvements[n]
            answered == item \in selected
            correct == item \in q.correct
            is_wrong == answered # correct
        IN RowResult(item, answered, correct, is_wrong)]

\* grade with the placeholder quiz of get_quiz_by_id for an unknown quiz_id
grade_placeholder(Q, payload) ==
    LET q == DictGet(Q, payload.quiz_id)
        quiz == IF q = None THEN QuizDef(payload.quiz_id, UI_IMPROVEMENTS, {}, None)
                ELSE Val(q)
        selected == {payload.selected[n] : n \in 1..Len(payload.selected)}
        rows == grade_rows(quiz, selected)
        score == Len(SelectSeq(rows, LAMBDA r : ~r.is_wrong))
    IN GradeResult(score, Len(rows), rows)

grade(Q, payload) ==
    LET q == DictGet(Q, payload.quiz_id)
    IN IF q = None THEN GradeResult(0, 0, <<>>)
       ELSE LET selected == {payload.selected[n] : n \in 1..Len(payload.selected)}
                rows == grade_rows(Val(q), selected)
                score == Len(SelectSeq(rows, LAMBDA r : ~r.is_wrong))
            IN GradeResult(score, Len(rows), rows)

-----------------------------------------------------------------------------
(* The inputs: CSV files, file systems, requests *)

MaxRows == 2

sID == <<"I", "D">>
s_id == <<"i", "d">>
ch(n) == LABEL_TO_COL[UI_IMPROVEMENTS[n]]

HeaderPool ==
    { <<sID, ch(1), ch(2), ch(3), ch(4), ch(5), ch(6), ch(7), ch(8), ch(9), ch(10)>>,
      << <<BOM, "I", "D">>, <<" ", "c", "h", "1", " ">>, ch(3) >>,
      << <<"n", "a", "m", "e">>, s_id, ch(1) >>,
      << <<"q", "u", "i", "z", "i", "d">>, ch(1), sID >>,
      << s_id, sID, ch(2) >>,
      << ch(1), <<"Q", "U", "I", "D">>, <<"u", "i", "d">> >>,
      << <<"n", "a", "m", "e">>, ch(1) >>,
      << ch(1), <<"I", "D", " ">>, ch(1) >>,
      << <<"u", "i", "d">>, ch(10), <<"u", "i", "d">> >>,
      << >> }

RowPool ==
    { << <<"a">>, <<"1">>, <<"0">>, <<"T", "R", "U", "E">>, <<>>, <<"Y", "e", "s">>,
         <<"n", "o">>, <<"0">>, <<"b", "a", "n", "a", "n", "a">>, <<" ", "y", "\t">>,
         <<"1">> >>,
      << <<" ", "a", " ">>, <<"0">>, <<"1">> >>,
      << <<"b">>, <<" ", "Y", " ">>, <<"a">> >>,
      << >>,
      << <<"x">> >>,
      << <<" ", " ">>, <<"b">>, <<"t", "r", "u", "e">> >> }

RowLists == UNION {[1..k -> RowPool] : k \in 0..MaxRows}

S == <<"s">>
O == <<"o">>
I == <<"i">>
Z == <<"z">>
M == <<"m">>
DotI == <<".", ".", "i">>

\* a file system around STATIC_DIR: what STATIC_DIR is, and the directories
\* that hold <quiz_id>.png
build_fs(kind, quiz_id, locs) ==
    LET dirs == {<<>>, <<O>>} \cup
                (IF kind \in {"dir", "nolist"}
                 THEN {<<S>>, <<S, I>>, <<S, Z>>, <<S, DotI>>} ELSE {})
        placed == {normpath(<<>>, path_join(d, quiz_id \o Png)) : d \in locs}
    IN [dirs |-> dirs,
        files |-> {p \in placed : /\ p \notin dirs
                                  /\ SubSeq(p, 1, Len(p) - 1) \in dirs}
                    \cup (IF kind = "file" THEN {<<S>>} ELSE {}),
        nolist |-> IF kind = "nolist" THEN {<<S>>} ELSE {}]

StaticKinds == {"dir", "nolist", "file", "missing"}

LocDirs == {<<O>>, <<S>>, <<S, I>>, <<S, Z>>, <<S, DotI>>}

ImagesDirs == {None, Some(<<O>>), Some(<<S, I>>), Some(<<S, DotI>>), Some(<<S>>),
               Some(<<M>>)}

FindIds == { <<"a">>, <<".", ".", "x">>, <<".", ".", "/", "a">>, <<"a", "\\", "b">> }

Input(is_file, lines, f, images_dir) ==
    [csv_is_file |-> is_file, csv_lines |-> lines, fs |-> f, images_dir_env |-> images_dir]

\* many CSV files over two file systems
CsvInputs ==
    {Input(TRUE, <<h>> \o rows, f, None) :
        h \in HeaderPool, rows \in RowLists,
        f \in {build_fs("dir", <<"a">>, {<<S>>}), build_fs("file", <<"a">>, {})}}
    \cup {Input(TRUE, <<>>, build_fs("dir", <<"a">>, {<<S>>}), None),
          Input(FALSE, <<>>, build_fs("dir", <<"a">>, {<<S>>}), None)}

\* many file systems under a CSV file of one row
FindInputs ==
    {Input(TRUE, << <<sID, ch(1)>>, <<id, <<"1">>>> >>, build_fs(kind, id, locs), dir) :
        id \in FindIds, kind \in StaticKinds, locs \in SUBSET LocDirs, dir \in ImagesDirs}

\* two rows of one id, with the image in several subdirectories
DupInputs ==
    {Input(TRUE, << <<sID, ch(1)>>, <<<<"a">>, <<"1">>>>, <<<<" ", "a", " ">>, <<"0">>>> >>,
           build_fs("dir", <<"a">>, locs), None) :
        locs \in SUBSET {<<S, I>>, <<S, Z>>}}

Inputs == CsvInputs \cup FindInputs \cup DupInputs

RequestIds == {<<"a">>, <<" ", "a", " ">>, <<"n", "o">>}

SelectedPool ==
    { <<>>, <<"text_emphasis", "pictogram", "text_emphasis">>,
      <<"unknown", "subheading">>, UI_IMPROVEMENTS,
      <<"MECE", "flow", "bullets", "pictogram">> }

-----------------------------------------------------------------------------
(* The state machine *)

NoResp == [op |-> "none", arg |-> None, body |-> None]

Init ==
    \E inp \in Inputs :
        /\ csv_is_file = inp.csv_is_file
        /\ csv_lines = inp.csv_lines
        /\ fs = inp.fs
        /\ images_dir_env = inp.images_dir_env
        /\ pc = "import"
        /\ headers = <<>>
        /\ idx = EmptyDict
        /\ id_key = None
        /\ rdr = 1
        /\ quizzes = EmptyDict
        /\ find_call = None
        /\ exc = NoExc
        /\ _QUIZZES = EmptyDict
        /\ DEFAULT_QUIZ_ID = None
        /\ resp = NoResp

env == <<csv_is_file, csv_lines, fs, images_dir_env>>
loader == <<headers, idx, id_key, rdr, quizzes, find_call, exc>>
globals == <<_QUIZZES, DEFAULT_QUIZ_ID>>

\* load_quizzes up to the loop: the early returns, the header, the identifier column
load_open ==
    /\ pc = "import"
    /\ IF ~csv_is_file \/ csv_lines = <<>>
       THEN /\ pc' = "return"
            /\ UNCHANGED <<headers, idx, id_key, rdr>>
       ELSE LET hs == _normalize_headers(csv_lines[1])
                d == enumerate_dict(hs, 0, EmptyDict)
                key == resolve_id_key(d)
            IN /\ headers' = hs
               /\ idx' = d
               /\ id_key' = key
               /\ rdr' = 2
               /\ pc' = IF key = None THEN "return" ELSE "rows"
    /\ UNCHANGED <<env, quizzes, find_call, exc, globals, resp>>

\* one data row
load_row ==
    /\ pc = "rows"
    /\ rdr <= Len(csv_lines)
    /\ \E order \in Orders(listdir(fs, STATIC_DIR).names) :
        LET r == process_row(idx, Val(id_key), quizzes, csv_lines[rdr], STATIC_DIR,
                             images_dir_env, fs, order)
        IN /\ quizzes' = r.quizzes
           /\ find_call' = IF r.called = None THEN find_call ELSE r.called
           /\ exc' = r.raises
           /\ pc' = IF r.raises = NoExc THEN "rows" ELSE "raised"
    /\ rdr' = rdr + 1
    /\ UNCHANGED <<env, headers, idx, id_key, globals, resp>>

\* load_quizzes returns; main.py binds _QUIZZES and DEFAULT_QUIZ_ID
load_return ==
    /\ pc = "return" \/ (pc = "rows" /\ rdr > Len(csv_lines))
    /\ _QUIZZES' = quizzes
    /\ DEFAULT_QUIZ_ID' = IF quizzes.keys = <<>> THEN None ELSE Some(quizzes.keys[1])
    /\ pc' = "serving"
    /\ UNCHANGED <<env, loader, resp>>

\* a handler that stores the placeholder of an unknown quiz_id in _QUIZZES
Respond_caching(op, arg, body) ==
    /\ pc = "serving"
    /\ resp' = [op |-> op, arg |-> arg, body |-> body]
    /\ _QUIZZES' = IF op = "get_quiz_by_id" /\ arg \notin Keys(_QUIZZES)
                   THEN DictSet(_QUIZZES, arg, QuizDef(arg, UI_IMPROVEMENTS, {}, None))
                   ELSE _QUIZZES
    /\ UNCHANGED <<env, loader, DEFAULT_QUIZ_ID, pc>>

\* a handler: it reads _QUIZZES and writes nothing but its response
Respond(op, arg, body) ==
    /\ pc = "serving"
    /\ resp' = [op |-> op, arg |-> arg, body |-> body]
    /\ UNCHANGED <<env, loader, globals, pc>>

Health == Respond("health", None, health)

GetQuiz == Respond("get_quiz", None, get_quiz(_QUIZZES, DEFAULT_QUIZ_ID))

GetQuizById ==
    \E quiz_id \in RequestIds :
        Respond("get_quiz_by_id", quiz_id, get_quiz_by_id(_QUIZZES, quiz_id))

ListQuizIds == Respond("list_quiz_ids", None, list_quiz_ids(_QUIZZES))

Grade ==
    \E quiz_id \in RequestIds, selected \in SelectedPool :
        LET payload == [quiz_id |-> quiz_id, selected |-> selected]
        IN Respond("grade", payload, grade(_QUIZZES, payload))

Next ==
    \/ load_open
    \/ load_row
    \/ load_return
    \/ Health
    \/ GetQuiz
    \/ GetQuizById
    \/ ListQuizIds
    \/ Grade

Spec == Init /\ [][Next]_vars

-----------------------------------------------------------------------------
(* What the claims speak of *)

\* the trimmed, non-empty identifier a data row carries in the identifier column
row_id(row) ==
    IF row = <<>> \/ id_key = None THEN None
    ELSE IF idx.at[Val(id_key)] >= Len(row) THEN None
    ELSE LET t == strip(row[idx.at[Val(id_key)] + 1])
         IN IF t = <<>> THEN None ELSE Some(t)

TruthyWords == {<<"1">>, <<"t", "r", "u", "e">>, <<"y", "e", "s">>, <<"y">>}

\* the labels whose column, as the header maps it, holds a truthy cell in the row
labels_marked(row) ==
    {UI_IMPROVEMENTS[n] : n \in
        {m \in 1..Len(UI_IMPROVEMENTS) :
            \E j \in 1..Len(headers) :
                /\ headers[j] = ch(m)
                /\ \A j2 \in (j + 1)..Len(headers) : headers[j2] # ch(m)
                /\ j <= Len(row)
                /\ lower(strip(row[j])) \in TruthyWords}}

Range(seq) == {seq[n] : n \in 1..Len(seq)}

Called == find_call # None
TheCall == Val(find_call)

override_candidate == path_join(Val(images_dir_env), TheCall.quiz_id \o Png)
root_candidate == path_join(STATIC_DIR, TheCall.quiz_id \o Png)

\* a candidate's path relative to STATIC_DIR, as _find_image_relpath returns it
returned_form(p) == replace(relpath(p, STATIC_DIR), Backslash, Slash)

BothExist ==
    /\ Called
    /\ images_dir_env # None
    /\ isfile(fs, override_candidate)
    /\ isfile(fs, root_candidate)

-----------------------------------------------------------------------------
(* C1: grade of a loaded quiz returns one row per label of q.improvements, in
   order, with answered = (label in selected), correct = (label in q.correct),
   is_wrong = (answered # correct); score counts the rows that are not wrong,
   total counts the rows; labels of selected outside q.improvements change
   nothing. *)
C1_GradeRows ==
    (resp.op = "grade" /\ resp.arg.quiz_id \in Keys(_QUIZZES)) =>
        LET q == _QUIZZES.at[resp.arg.quiz_id]
            sel == Range(resp.arg.selected)
            b == resp.body
            known == SelectSeq(resp.arg.selected, LAMBDA l : l \in Range(q.improvements))
        IN /\ Len(b.rows) = Len(q.improvements)
           /\ \A n \in 1..Len(b.rows) :
                /\ b.rows[n].item = q.improvements[n]
                /\ b.rows[n].answered = (q.improvements[n] \in sel)
                /\ b.rows[n].correct = (q.improvements[n] \in q.correct)
                /\ b.rows[n].is_wrong = (b.rows[n].answered # b.rows[n].correct)
           /\ b.total = Len(b.rows)
           /\ b.score = Cardinality({n \in 1..Len(b.rows) : ~b.rows[n].is_wrong})
           /\ b = grade(_QUIZZES, [quiz_id |-> resp.arg.quiz_id, selected |-> known])

C1_Witness ==
    /\ resp.op = "grade"
    /\ resp.arg.quiz_id \in Keys(_QUIZZES)
    /\ "unknown" \in Range(resp.arg.selected)
    /\ resp.body.score > 0
    /\ resp.body.score < resp.body.total
    /\ \E n \in 1..Len(resp.body.rows) :
        resp.body.rows[n].correct /\ ~resp.body.rows[n].answered

(* C2: where STATIC_DIR can be listed or is missing, load_quizzes of a CSV file
   with an identifier column never raises, whatever the shape of the rows, and
   returns a mapping whose keys are exactly the distinct non-empty trimmed
   identifiers of the data rows, each with the canonical improvements. *)
C2_LoadNeverRaises ==
    (listdir(fs, STATIC_DIR).raises \in {NoExc, "FileNotFoundError"}) =>
        /\ pc # "raised"
        /\ (pc = "serving" /\ id_key # None) =>
            /\ Keys(_QUIZZES) =
                 {Val(row_id(csv_lines[i])) :
                    i \in {k \in 2..Len(csv_lines) : row_id(csv_lines[k]) # None}}
            /\ \A k \in Keys(_QUIZZES) : _QUIZZES.at[k].improvements = UI_IMPROVEMENTS

(* C3: a row whose trimmed identifier is already a key raises nothing and
   replaces the whole entry: the entry is then the identifier, the canonical
   improvements, the correct set of this row and the image found for this row;
   a row of another identifier leaves the entry as it is. *)
C3_LastRowWins ==
    [][(pc = "rows" /\ rdr <= Len(csv_lines)) =>
        LET row == csv_lines[rdr]
            rid == row_id(row)
        IN /\ (rid # None /\ Val(rid) \in Keys(quizzes)) =>
                /\ pc' = "rows"
                /\ quizzes'.keys = quizzes.keys
                /\ find_call' # None
                /\ Val(find_call').quiz_id = Val(rid)
                /\ quizzes'.at[Val(rid)] =
                     QuizDef(Val(rid), UI_IMPROVEMENTS, labels_marked(row),
                             Val(find_call').value)
           /\ \A k \in Keys(quizzes) :
                (rid = None \/ Val(rid) # k) =>
                    (k \in Keys(quizzes') /\ quizzes'.at[k] = quizzes.at[k])]_vars

C3_Witness ==
    /\ pc = "serving"
    /\ Len(csv_lines) = 3
    /\ row_id(csv_lines[2]) = Some(<<"a">>)
    /\ row_id(csv_lines[3]) = Some(<<"a">>)
    /\ labels_marked(csv_lines[2]) # labels_marked(csv_lines[3])
    /\ _QUIZZES.at[<<"a">>].correct = labels_marked(csv_lines[3])

(* C4 as claimed: whenever <images dir>/<id>.png and STATIC_DIR/<id>.png are both
   regular files, a call that returns returns the override candidate. *)
C4_OverrideWins ==
    (BothExist /\ TheCall.raises = NoExc) =>
        TheCall.value = Some(returned_form(override_candidate))

(* C4 as amended: when both files exist, the call raises the error of listing
   STATIC_DIR if there is one; otherwise it returns the override candidate
   when that candidate's path relative to STATIC_DIR does not begin with "..",
   else the STATIC_DIR candidate when its relative path does not begin with
   "..", else neither of the two. *)
C4_FirstAcceptedWins ==
    BothExist =>
        LET ls == listdir(fs, STATIC_DIR).raises
            ov == relpath(override_candidate, STATIC_DIR)
            rt == relpath(root_candidate, STATIC_DIR)
        IN IF ls # NoExc
           THEN TheCall.raises = ls /\ TheCall.value = None
           ELSE /\ TheCall.raises = NoExc
                /\ IF ~startswith(ov, DotDot)
                   THEN TheCall.value = Some(returned_form(override_candidate))
                   ELSE IF ~startswith(rt, DotDot)
                   THEN TheCall.value = Some(returned_form(root_candidate))
                   ELSE TheCall.value \notin {Some(returned_form(override_candidate)),
                                              Some(returned_form(root_candidate))}

C4_Witness ==
    /\ BothExist
    /\ TheCall.raises = NoExc
    /\ TheCall.value = Some(returned_form(override_candidate))
    /\ returned_form(override_candidate) # returned_form(root_candidate)

\* p lies below STATIC_DIR
under_static(p) ==
    Len(p) > Len(STATIC_DIR) /\ SubSeq(p, 1, Len(STATIC_DIR)) = STATIC_DIR

(* C5: a returned path, read relative to STATIC_DIR, names a regular file below
   STATIC_DIR and does not begin with ".."; when no regular file lies below
   STATIC_DIR the call that returns returns None. *)
C5_ReturnedIsFileUnderRoot ==
    /\ (Called /\ TheCall.value # None) =>
        LET v == Val(TheCall.value)
            p == STATIC_DIR \o split(v, <<>>)
        IN /\ ~startswith(v, DotDot)
           /\ isfile(fs, p)
           /\ under_static(normpath(<<>>, p))
    /\ (Called /\ TheCall.raises = NoExc /\ \A p \in fs.files : ~under_static(p)) =>
        TheCall.value = None

(* C6: grade of a quiz_id that is no key of _QUIZZES returns score 0, total 0
   and no rows, whatever is selected. *)
C6_UnknownQuiz ==
    (resp.op = "grade" /\ resp.arg.quiz_id \notin Keys(_QUIZZES)) =>
        resp.body = [score |-> 0, total |-> 0, rows |-> <<>>]

C6_Witness ==
    /\ resp.op = "grade"
    /\ resp.arg.quiz_id \notin Keys(_QUIZZES)
    /\ Keys(_QUIZZES) # {}
    /\ resp.arg.selected = UI_IMPROVEMENTS

(* C7: once the import is over, no request changes _QUIZZES or
   DEFAULT_QUIZ_ID, and _QUIZZES stays the mapping load_quizzes built. *)
C7_QuizzesFrozen ==
    [][pc = "serving" =>
        /\ _QUIZZES' = _QUIZZES
        /\ DEFAULT_QUIZ_ID' = DEFAULT_QUIZ_ID
        /\ _QUIZZES' = quizzes']_vars

C7_Witness ==
    /\ pc = "serving"
    /\ resp.op = "get_quiz_by_id"
    /\ resp.arg \notin Keys(_QUIZZES)
    /\ Len(_QUIZZES.keys) = 2

(* C8: when STATIC_DIR cannot be listed (missing, a regular file, unreadable),
   _find_image_relpath raises nothing and decides among the override and the
   STATIC_DIR candidates alone. *)
C8_ListingTolerated ==
    (Called /\ listdir(fs, STATIC_DIR).raises # NoExc) =>
        /\ TheCall.raises = NoExc
        /\ TheCall.value \in
             {None, Some(returned_form(root_candidate))} \cup
             (IF images_dir_env = None THEN {}
              ELSE {Some(returned_form(override_candidate))})

\* s is t without the whitespace around it
trimmed_of(s, t) ==
    /\ s = <<>> \/ (s[1] \notin Whitespace /\ s[Len(s)] \notin Whitespace)
    /\ \E lo \in 1..(Len(t) + 1) :
        /\ SubSeq(t, lo, lo + Len(s) - 1) = s
        /\ \A n \in 1..Len(t) : (n < lo \/ n >= lo + Len(s)) => t[n] \in Whitespace

(* C9: the headers are the raw header cells without byte-order marks and
   without surrounding whitespace; the identifier header is "ID" if a header
   is "ID", else "id" if a header is "id", else the first header in header
   order whose lowercase form ends in "id"; if there is none the mapping is
   empty whatever the data rows. *)
C9_IdColumn ==
    (pc # "import" /\ csv_is_file /\ csv_lines # <<>>) =>
        LET hits == {n \in 1..Len(headers) : endswith(lower(headers[n]), s_id)}
        IN /\ Len(headers) = Len(csv_lines[1])
           /\ \A n \in 1..Len(headers) :
                /\ BOM \notin Range(headers[n])
                /\ trimmed_of(headers[n], SelectSeq(csv_lines[1][n], LAMBDA c : c # BOM))
           /\ id_key = IF sID \in Range(headers) THEN Some(sID)
                       ELSE IF s_id \in Range(headers) THEN Some(s_id)
                       ELSE IF hits # {}
                       THEN Some(headers[CHOOSE n \in hits : \A m \in hits : n <= m])
                       ELSE None
           /\ id_key = None =>
                /\ pc \in {"return", "serving"}
                /\ quizzes = EmptyDict
                /\ _QUIZZES = EmptyDict

C9_Witness ==
    /\ pc = "serving"
    /\ id_key = Some(<<"Q", "U", "I", "D">>)
    /\ <<"u", "i", "d">> \in Range(headers)
    /\ Keys(_QUIZZES) # {}

(* C10: the correct set of every loaded quiz is the set of labels whose mapped
   column holds, in the last row read for that identifier, a cell that trimmed
   and lowercased is 1, true, yes or y; a label whose column is missing from
   the header or lies past the end of the row is not in it; it is a subset of
   the canonical improvements. *)
C10_CorrectSet ==
    pc # "raised" =>
        \A k \in Keys(quizzes) :
            LET mine == {i \in 2..(rdr - 1) : row_id(csv_lines[i]) = Some(k)}
                row == csv_lines[CHOOSE i \in mine : \A i2 \in mine : i2 <= i]
                q == quizzes.at[k]
            IN /\ mine # {}
               /\ q.correct = labels_marked(row)
               /\ q.correct \subseteq Range(UI_IMPROVEMENTS)
               /\ \A n \in 1..Len(UI_IMPROVEMENTS) :
                    (\A j \in 1..Len(headers) : headers[j] = ch(n) => j > Len(row))
                        => UI_IMPROVEMENTS[n] \notin q.correct

C10_Witness ==
    /\ pc = "serving"
    /\ <<"a">> \in Keys(_QUIZZES)
    /\ _QUIZZES.at[<<"a">>].correct =
         {"pictogram", "text_emphasis", "title_message", "flow", "MECE"}

====
